---- MODULE Spec2Model ----
(***************************************************************************)
(* The application lifecycle and the sign-off workflow of the grants       *)
(* management backend (src/app/api/applications.py and the service, model  *)
(* and schema modules it uses), as a state machine over the MongoDB        *)
(* collection db.applications.                                             *)
(*                                                                         *)
(* A document is modelled by the keys the handlers read and write.  The    *)
(* collection holds camelCase keys (written by create_application, by the  *)
(* sample data of main.py and by update_application) next to snake_case    *)
(* keys (written by the status handlers); Application.parse_obj reads a    *)
(* field by its alias first and by its name only when the alias is absent, *)
(* so both keys are kept.  An optional value is a set: {} is None (or an   *)
(* absent key) and {v} is the value v.  Dates are points of a logical      *)
(* clock.                                                                  *)
(*                                                                         *)
(* The result of a request is the outcome of the handler's checks and      *)
(* writes; of the response body, only the tokens, counts and approval the  *)
(* sign-off handlers return and the workflow status shown by a decide are  *)
(* modelled.                                                               *)
(***************************************************************************)
EXTENDS Integers, Sequences, FiniteSets, TLC

VARIABLES
    applications,  \* db.applications: _id -> document
    now,           \* the clock read by datetime.utcnow() / datetime.now()
    issued,        \* how many tokens secrets.token_urlsafe has produced
    last,          \* the request served last and its result
    calls          \* requests in flight: client -> the handler's position and locals

vars == <<applications, now, issued, last, calls>>

(***************************************************************************)
(* Bounds of the model.                                                    *)
(***************************************************************************)
MaxTime == 3
MaxHistory == 2
MaxRevision == 2
MaxApprovers == 2
MaxTokens == 4

(***************************************************************************)
(* Optional values.                                                        *)
(***************************************************************************)
None == {}
Some(v) == {v}
Get(o) == CHOOSE v \in o : TRUE
\* Python's `o or d` for an Optional[int]: None and 0 are both falsy
OrElse(o, d) == IF o = None THEN d ELSE Get(o)
\* pydantic: the alias key is read first, the field name only if the alias is absent
ByAlias(alias, name) == IF alias # None THEN alias ELSE name

(***************************************************************************)
(* Users, statuses, inputs.                                                *)
(***************************************************************************)
valid_statuses ==
    { "submitted", "under_review", "approved", "rejected",
      "withdrawn", "editable", "needs_revision", "awaiting_signoff",
      "signoff_complete", "contract_pending", "contract_received" }

\* a status literal outside valid_statuses, and the missing status (None or "")
Bogus == "archived"
NoStatus == ""
StatusInputs == valid_statuses \cup {Bogus, NoStatus}

Researcher == [email |-> "researcher@grants.edu", role |-> "Researcher"]
Researcher2 == [email |-> "other@grants.edu", role |-> "Researcher"]
Manager == [email |-> "manager@grants.edu", role |-> "Grants Manager"]
Admin == [email |-> "admin@grants.edu", role |-> "Admin"]
Reviewer == [email |-> "reviewer@grants.edu", role |-> "Reviewer"]
Users == {Researcher, Researcher2, Manager, Admin, Reviewer}

CommentInputs == {"", "fix budget"}

AppIds == {1}
\* an id that is well-formed and names no document
NoId == 0

(***************************************************************************)
(* Documents.                                                              *)
(***************************************************************************)
SeedSubmissionDate == 0
SeedDeadline == 2

\* the sample application main.py loads into an empty database
SampleApplication ==
    [ email |-> Researcher.email,
      status |-> "approved",
      submissionDate |-> Some(SeedSubmissionDate),
      submission_date |-> None,
      reviewComments |-> "Excellent proposal with strong methodology",
      deadline |-> Some(SeedDeadline),
      deadlineAware |-> TRUE,
      revisionCount |-> Some(0),
      revision_count |-> None,
      originalSubmissionDate |-> Some(SeedSubmissionDate),
      original_submission_date |-> None,
      isEditable |-> Some(FALSE),
      is_editable |-> None,
      reviewHistory |->
          << [comments |-> "Strong technical approach and clear objectives",
              status |-> "approved"] >>,
      signoff_workflow |-> << >> ]

\* the document create_application inserts
NewApplication(email, deadline, aware, time) ==
    [ email |-> email,
      status |-> "submitted",
      submissionDate |-> Some(time),
      submission_date |-> None,
      reviewComments |-> "",
      deadline |-> deadline,
      deadlineAware |-> aware,
      revisionCount |-> None,
      revision_count |-> None,
      originalSubmissionDate |-> None,
      original_submission_date |-> None,
      isEditable |-> None,
      is_editable |-> None,
      reviewHistory |-> << >>,
      signoff_workflow |-> << >> ]

\* Application.parse_obj(document): what a handler sees after get_application_by_id
Application(doc) ==
    [ email |-> doc.email,
      status |-> doc.status,
      submission_date |-> ByAlias(doc.submissionDate, doc.submission_date),
      review_comments |-> doc.reviewComments,
      deadline |-> doc.deadline,
      deadlineAware |-> doc.deadlineAware,
      is_editable |-> ByAlias(doc.isEditable, doc.is_editable),
      revision_count |-> ByAlias(doc.revisionCount, doc.revision_count),
      original_submission_date |->
          ByAlias(doc.originalSubmissionDate, doc.original_submission_date) ]

Exists(id) == id \in DOMAIN applications

\* _id of the sample application, and of the application a researcher created
SampleId == 1

\* the caller of a token-addressed endpoint, which takes no credentials
Anonymous == [email |-> "", role |-> ""]

NoRequest == [op |-> "none", user |-> Anonymous, id |-> NoId, status |-> NoStatus,
              result |-> "none", value |-> << >>]
\* a served request: status is the status or decision asked for, value what the
\* request carried or returned besides (tokens)
ServedWith(op, user, id, status, result, value) ==
    [op |-> op, user |-> user, id |-> id, status |-> status, result |-> result,
     value |-> value]
Served(op, user, id, status, result) ==
    ServedWith(op, user, id, status, result, << >>)

Clients == {1, 2}
Idle == [pc |-> "idle", op |-> "none", user |-> Anonymous, id |-> NoId, token |-> 0,
         status |-> NoStatus, comments |-> "", seen |-> << >>, result |-> "none"]

\* time passes
Tick ==
    /\ now < MaxTime
    /\ now' = now + 1
    /\ UNCHANGED <<applications, issued, last, calls>>

\* the response of the request served last is delivered
respond ==
    /\ last # NoRequest
    /\ last' = NoRequest
    /\ UNCHANGED <<applications, now, issued, calls>>

(***************************************************************************)
(* POST /applications/                                                     *)
(***************************************************************************)
submit_application(user, email, deadline, aware) ==
    LET id == CHOOSE i \in AppIds \ DOMAIN applications :
                  \A j \in AppIds \ DOMAIN applications : i <= j
        result == IF email # user.email THEN "Forbidden" ELSE "ok"
    IN  /\ AppIds \ DOMAIN applications # {}
        /\ applications' =
              IF result = "ok"
              THEN applications @@ (id :> NewApplication(email, deadline, aware, now))
              ELSE applications
        /\ last' = Served("submit_application", user,
                          IF result = "ok" THEN id ELSE NoId, "submitted", result)
        /\ UNCHANGED <<now, issued, calls>>

(***************************************************************************)
(* POST /applications/ with the request body as the client sent it         *)
(***************************************************************************)
\* a body made of fields of the schema
Body(email, deadline, aware) ==
    [email |-> email, deadline |-> deadline, deadlineAware |-> aware,
     reviewHistory |-> << >>]

ForgedWorkflow ==
    << [status |-> "approved", award_amount |-> 500000, approvals |-> << >>] >>

\* the same body with two keys the schema does not declare
ForgedBody(email, deadline, aware) ==
    [email |-> email, deadline |-> deadline, deadlineAware |-> aware,
     reviewHistory |-> << >>, status |-> "approved",
     signoff_workflow |-> ForgedWorkflow]

\* a schema that keeps the keys it does not declare (Config.extra = allow)
ApplicationCreate_allowing_extra(body) == body

\* ApplicationCreate parsed from the body: the declared fields, nothing else
ApplicationCreate(body) ==
    [email |-> body.email, deadline |-> body.deadline,
     deadlineAware |-> body.deadlineAware, reviewHistory |-> body.reviewHistory]

\* the document create_application inserts: application_data.dict(by_alias=True)
\* with setdefault of submissionDate, reviewComments and status
create_application(application_data, time) ==
    [NewApplication(application_data.email, application_data.deadline,
                    application_data.deadlineAware, time) EXCEPT
        !.status = IF "status" \in DOMAIN application_data
                   THEN application_data.status ELSE "submitted",
        !.reviewHistory = application_data.reviewHistory,
        !.signoff_workflow = IF "signoff_workflow" \in DOMAIN application_data
                             THEN application_data.signoff_workflow ELSE << >>]

\* the _id values insert_one can give in a database of at most two applications
NewIds == {1, 2}

\* value is the body received
submit_application_data(user, body) ==
    LET application_data == ApplicationCreate(body)
        id == CHOOSE i \in NewIds \ DOMAIN applications :
                  \A j \in NewIds \ DOMAIN applications : i <= j
        result == IF application_data.email # user.email THEN "Forbidden" ELSE "ok"
    IN  /\ NewIds \ DOMAIN applications # {}
        /\ applications' =
              IF result = "ok"
              THEN applications @@ (id :> create_application(application_data, now))
              ELSE applications
        /\ last' = ServedWith("submit_application", user,
                              IF result = "ok" THEN id ELSE NoId, "submitted", result,
                              << body >>)
        /\ UNCHANGED <<now, issued, calls>>

(***************************************************************************)
(* PUT /applications/{id}/status, first handler (managers and admins)      *)
(***************************************************************************)
\* the checks of the handler, in the order of the code
managers_status_result(user, id, new_status) ==
    IF user.role \notin {"Grants Manager", "Admin"} THEN "Forbidden"
    ELSE IF ~Exists(id) THEN "NotFound"
    ELSE IF new_status = NoStatus THEN "StatusRequired"
    ELSE IF new_status \notin valid_statuses THEN "InvalidStatus"
    ELSE "ok"

\* the document after the handler's $set
managers_status_update(doc, new_status, comments) ==
    [doc EXCEPT
        !.status = new_status,
        !.reviewComments = IF comments # "" THEN comments ELSE @,
        !.is_editable = Some(new_status \in {"needs_revision", "editable"})]

update_application_status_managers(user, id, new_status, comments) ==
    LET result == managers_status_result(user, id, new_status)
    IN  /\ applications' =
              IF result = "ok"
              THEN [applications EXCEPT
                       ![id] = managers_status_update(@, new_status, comments)]
              ELSE applications
        /\ last' = Served("update_application_status_managers", user, id,
                          new_status, result)
        /\ UNCHANGED <<now, issued, calls>>

(***************************************************************************)
(* PUT /applications/{id}/status, second handler                           *)
(***************************************************************************)
\* a resubmission admitted only from the two revisable statuses
resubmittable_revisable_only == {"editable", "needs_revision"}

\* the statuses a researcher may resubmit from
resubmittable == {"editable", "needs_revision", "rejected", "withdrawn"}

\* a researcher also allowed to ask for editable
researcher_statuses_with_editable == {"submitted", "editable"}

\* the status values a researcher may request
researcher_statuses == {"submitted"}

\* the permission checks with Admin left out of the managers' branch
status_result_managers_only(user, application, new_status) ==
    IF user.role = "Researcher"
    THEN IF application.email # user.email THEN "Forbidden"
         ELSE IF new_status \notin researcher_statuses THEN "Forbidden"
         ELSE IF application.status \notin resubmittable THEN "InvalidTransition"
         ELSE "ok"
    ELSE IF user.role = "Grants Manager"
    THEN IF new_status = NoStatus THEN "StatusRequired" ELSE "ok"
    ELSE "Forbidden"

\* the permission checks with the current status looked at before the requested one
status_result_state_first(user, application, new_status) ==
    IF user.role = "Researcher"
    THEN IF application.email # user.email THEN "Forbidden"
         ELSE IF application.status \notin resubmittable THEN "InvalidTransition"
         ELSE IF new_status \notin researcher_statuses THEN "Forbidden"
         ELSE "ok"
    ELSE IF user.role \in {"Grants Manager", "Admin"}
    THEN IF new_status = NoStatus THEN "StatusRequired" ELSE "ok"
    ELSE "Forbidden"

\* the permission checks of the handler on the application it read
status_result(user, application, new_status) ==
    IF user.role = "Researcher"
    THEN IF application.email # user.email THEN "Forbidden"
         ELSE IF new_status \notin researcher_statuses THEN "Forbidden"
         ELSE IF application.status \notin resubmittable THEN "InvalidTransition"
         ELSE "ok"
    ELSE IF user.role \in {"Grants Manager", "Admin"}
    THEN IF new_status = NoStatus THEN "StatusRequired" ELSE "ok"
    ELSE "Forbidden"

\* whether the handler treats the transition as a resubmission
is_resubmission(application, new_status) ==
    new_status = "submitted" /\ application.status \in {"editable", "needs_revision"}

\* the document written back whole from the application the handler read, which
\* has neither ledger nor workflow
status_update_replacing(doc, application, new_status, comments, time) ==
    [doc EXCEPT
        !.status = new_status,
        !.reviewComments = IF comments # "" THEN comments ELSE @,
        !.is_editable = Some(new_status \in {"needs_revision", "editable"}),
        !.reviewHistory = << >>,
        !.signoff_workflow = << >>]

\* the document after the handler's $set, computed from the application it read
status_update(doc, application, new_status, comments, time) ==
    LET resubmit == is_resubmission(application, new_status)
    IN  [doc EXCEPT
            !.status = new_status,
            !.reviewComments = IF comments # "" THEN comments ELSE @,
            !.is_editable = Some(new_status \in {"needs_revision", "editable"}),
            !.revision_count =
                IF resubmit THEN Some(OrElse(application.revision_count, 0) + 1)
                ELSE @,
            !.original_submission_date =
                IF resubmit /\ application.original_submission_date = None
                THEN application.submission_date ELSE @,
            !.submission_date = IF resubmit THEN Some(time) ELSE @]

\* the revision counter stays within the model's bound
RevisionBound(id, new_status) ==
    Exists(id) /\ is_resubmission(Application(applications[id]), new_status)
        => OrElse(applications[id].revision_count, 0) < MaxRevision

update_application_status(user, id, new_status, comments) ==
    LET result == IF ~Exists(id) THEN "NotFound"
                  ELSE status_result(user, Application(applications[id]), new_status)
    IN  /\ RevisionBound(id, new_status)
        /\ applications' =
              IF result = "ok"
              THEN [applications EXCEPT
                       ![id] = status_update(@, Application(@), new_status,
                                             comments, now)]
              ELSE applications
        /\ last' = Served("update_application_status", user, id, new_status, result)
        /\ UNCHANGED <<now, issued, calls>>

(***************************************************************************)
(* PUT /applications/{id}/status as the router serves it                   *)
(***************************************************************************)
\* both handlers are registered for the same method and path; the router calls the
\* one registered first
put_application_status(user, id, new_status, comments) ==
    update_application_status_managers(user, id, new_status, comments)

(***************************************************************************)
(* PUT /applications/{id}/withdraw                                         *)
(***************************************************************************)
\* a withdrawable set that also admits approved applications
withdrawable_with_approved == {"submitted", "under_review", "approved"}

\* the statuses an application may be withdrawn from
withdrawable == {"submitted", "under_review"}

\* the checks of the handler on the application it read, at time `time`;
\* a naive datetime.now() compared with a timezone-aware deadline raises TypeError
withdraw_result(user, application, time) ==
    IF application.email # user.email THEN "Forbidden"
    ELSE IF application.status \notin withdrawable THEN "NotWithdrawable"
    ELSE IF application.deadline = None THEN "ok"
    ELSE IF application.deadlineAware THEN "ServerError"
    ELSE IF time > Get(application.deadline) THEN "DeadlinePassed"
    ELSE "ok"

withdraw_application(user, id) ==
    LET result == IF ~Exists(id) THEN "NotFound"
                  ELSE withdraw_result(user, Application(applications[id]), now)
    IN  /\ applications' =
              IF result = "ok"
              THEN [applications EXCEPT ![id].status = "withdrawn"]
              ELSE applications
        /\ last' = Served("withdraw_application", user, id, "withdrawn", result)
        /\ UNCHANGED <<now, issued, calls>>

(***************************************************************************)
(* PUT /applications/{id}  (ApplicationUpdate, update_application)         *)
(***************************************************************************)
NoUpdate ==
    [status |-> None, reviewComments |-> None, isEditable |-> None,
     revisionCount |-> None, originalSubmissionDate |-> None]

\* application_update.dict(by_alias=True, exclude_none=True) applied with $set
update_application(doc, upd) ==
    [doc EXCEPT
        !.status = IF upd.status # None THEN Get(upd.status) ELSE @,
        !.reviewComments =
            IF upd.reviewComments # None THEN Get(upd.reviewComments) ELSE @,
        !.isEditable = IF upd.isEditable # None THEN upd.isEditable ELSE @,
        !.revisionCount = IF upd.revisionCount # None THEN upd.revisionCount ELSE @,
        !.originalSubmissionDate =
            IF upd.originalSubmissionDate # None THEN upd.originalSubmissionDate
            ELSE @]

update_info_result(user, application, upd) ==
    IF user.role = "Researcher" /\ application.email # user.email THEN "Forbidden"
    ELSE IF upd = NoUpdate THEN "NotFound"
    ELSE "ok"

update_application_info(user, id, upd) ==
    LET result == IF ~Exists(id) THEN "NotFound"
                  ELSE update_info_result(user, Application(applications[id]), upd)
    IN  /\ applications' =
              IF result = "ok"
              THEN [applications EXCEPT ![id] = update_application(@, upd)]
              ELSE applications
        /\ last' = Served("update_application_info", user, id,
                          IF upd.status # None THEN Get(upd.status) ELSE NoStatus,
                          result)
        /\ UNCHANGED <<now, issued, calls>>

(***************************************************************************)
(* POST /applications/{id}/review                                          *)
(***************************************************************************)
\* the entry the handler builds from the application it read
review_entry(application, comments, new_status) ==
    [comments |-> comments,
     status |-> IF new_status # NoStatus THEN new_status ELSE application.status]

\* the entry stored with $set, replacing the ledger, where $push belongs
review_update_replacing(doc, entry, new_status) ==
    [doc EXCEPT
        !.reviewHistory = << entry >>,
        !.status = IF new_status # NoStatus THEN new_status ELSE @]

\* the document after $push reviewHistory and, with new_status, $set status
review_update(doc, entry, new_status) ==
    [doc EXCEPT
        !.reviewHistory = Append(@, entry),
        !.status = IF new_status # NoStatus THEN new_status ELSE @]

add_review_comment(user, id, comments, new_status) ==
    LET result == IF ~Exists(id) THEN "NotFound" ELSE "ok"
    IN  /\ Exists(id) => Len(applications[id].reviewHistory) < MaxHistory
        /\ applications' =
              IF result = "ok"
              THEN [applications EXCEPT
                       ![id] = review_update(@,
                                   review_entry(Application(@), comments, new_status),
                                   new_status)]
              ELSE applications
        /\ last' = Served("add_review_comment", user, id, new_status, result)
        /\ UNCHANGED <<now, issued, calls>>

(***************************************************************************)
(* POST /applications/{id}/signoff/initiate                                *)
(***************************************************************************)
\* the roles of the invited approvers, in order
ApproverRoles == << "DORI", "DVC", "VC" >>
Approvers(n) == SubSeq(ApproverRoles, 1, n)

\* the dependency require_role(role) admits only a user of that role
require_role(user, role) == user.role = role

\* the approvals built with one token, drawn before the loop, for all of them
new_approvals_shared_token(approvers, first) ==
    [i \in 1..Len(approvers) |->
        [role |-> approvers[i], token |-> first + 1, status |-> "pending",
         comments |-> ""]]

\* the approvals built with tokens that start over at every initiation
new_approvals_restarting(approvers, first) ==
    [i \in 1..Len(approvers) |->
        [role |-> approvers[i], token |-> i, status |-> "pending", comments |-> ""]]

\* the approvals the handler builds, with tokens first+1, first+2, ... fresh from
\* secrets.token_urlsafe
new_approvals(approvers, first) ==
    [i \in 1..Len(approvers) |->
        [role |-> approvers[i], token |-> first + i, status |-> "pending",
         comments |-> ""]]

\* the document after the handler's $set of signoff_workflow
initiate_update(doc, approvers, award_amount, first) ==
    [doc EXCEPT
        !.signoff_workflow =
            << [status |-> "pending", award_amount |-> award_amount,
                approvals |-> new_approvals(approvers, first)] >>]

\* the checks without the one on the application's status
initiate_result_any_status(user, id) ==
    IF ~require_role(user, "Grants Manager") THEN "Forbidden"
    ELSE IF ~Exists(id) THEN "NotFound"
    ELSE "ok"

\* the checks of the handler, the dependency's first
initiate_result(user, id) ==
    IF ~require_role(user, "Grants Manager") THEN "Forbidden"
    ELSE IF ~Exists(id) THEN "NotFound"
    ELSE IF Application(applications[id]).status # "approved" THEN "InvalidState"
    ELSE "ok"

initiate_application_signoff(user, id, approvers, award_amount) ==
    LET result == initiate_result(user, id)
        ok == result = "ok"
    IN  /\ issued + Len(approvers) <= MaxTokens
        /\ applications' =
              IF ok
              THEN [applications EXCEPT
                       ![id] = initiate_update(@, approvers, award_amount, issued)]
              ELSE applications
        /\ issued' = IF ok THEN issued + Len(approvers) ELSE issued
        /\ last' = ServedWith("initiate_application_signoff", user, id, NoStatus,
                              result,
                              IF ok THEN [i \in 1..Len(approvers) |-> issued + i]
                              ELSE << >>)
        /\ UNCHANGED <<now, calls>>

(***************************************************************************)
(* POST /applications/signoff/{token}                                      *)
(***************************************************************************)
HasWorkflow(doc) == doc.signoff_workflow # << >>
Approvals(doc) == IF HasWorkflow(doc) THEN doc.signoff_workflow[1].approvals ELSE << >>

\* the query {"signoff_workflow.approvals.token": token} on a document
HoldsToken(doc, token) ==
    \E i \in 1..Len(Approvals(doc)) : Approvals(doc)[i].token = token

\* find_one by token: the first document that holds it, NoId if none does
find_by_token(token) ==
    LET holders == {id \in DOMAIN applications : HoldsToken(applications[id], token)}
    IN  IF holders = {} THEN NoId
        ELSE CHOOSE id \in holders : \A other \in holders : id <= other

\* a $set that gives the decision to every approval of the workflow
set_approval_all(doc, token, decision, comments) ==
    [doc EXCEPT
        !.signoff_workflow[1].approvals =
            [i \in 1..Len(@) |-> [@[i] EXCEPT !.status = decision,
                                              !.comments = comments]]]

\* the positional $set: the first approval that holds the token gets the decision
set_approval(doc, token, decision, comments) ==
    LET first == CHOOSE i \in 1..Len(Approvals(doc)) :
                    /\ Approvals(doc)[i].token = token
                    /\ \A j \in 1..(i - 1) : Approvals(doc)[j].token # token
    IN  [doc EXCEPT
            !.signoff_workflow[1].approvals[first].status = decision,
            !.signoff_workflow[1].approvals[first].comments = comments]

\* the aggregate with any() written where all() belongs
workflow_status_any_approved(approvals) ==
    LET any_approved == \E i \in 1..Len(approvals) : approvals[i].status = "approved"
        any_rejected == \E i \in 1..Len(approvals) : approvals[i].status = "rejected"
    IN  IF any_rejected THEN "rejected"
        ELSE IF any_approved THEN "approved"
        ELSE "pending"

\* the aggregate the handler computes from the approvals it read back
workflow_status(approvals) ==
    LET all_approved == \A i \in 1..Len(approvals) : approvals[i].status = "approved"
        any_rejected == \E i \in 1..Len(approvals) : approvals[i].status = "rejected"
    IN  IF any_rejected THEN "rejected"
        ELSE IF all_approved THEN "approved"
        ELSE "pending"

\* the aggregate written, and an approved workflow advancing the application
set_workflow_status_advancing(doc, status) ==
    [doc EXCEPT !.signoff_workflow[1].status = status,
                !.status = IF status = "approved" THEN "signoff_complete" ELSE @]

\* the $set of signoff_workflow.status
set_workflow_status(doc, status) ==
    [doc EXCEPT !.signoff_workflow[1].status = status]

\* the workflow status in the response: build_application_response of the document
\* read back after the approval write, before the aggregate is written
response_workflow_status(updated_application) ==
    updated_application.signoff_workflow[1].status

\* the whole handler, served alone; value is the token and the workflow status
\* shown in the response
submit_signoff_approval(token, decision, comments) ==
    LET id == find_by_token(token)
        result == IF id = NoId THEN "NotFound" ELSE "ok"
        decided == set_approval(applications[id], token, decision, comments)
    IN  /\ applications' =
              IF result = "ok"
              THEN [applications EXCEPT
                       ![id] = set_workflow_status(decided,
                                   workflow_status(Approvals(decided)))]
              ELSE applications
        /\ last' = ServedWith("submit_signoff_approval", Anonymous, id, decision,
                              result,
                              IF result = "ok"
                              THEN << token, response_workflow_status(decided) >>
                              ELSE << token >>)
        /\ UNCHANGED <<now, issued, calls>>

(***************************************************************************)
(* GET /applications/signoff/{token}                                       *)
(***************************************************************************)
\* the first approval of the workflow, whatever token it holds
token_approval_first(doc, token) == Approvals(doc)[1]

\* the loop over the approvals: the first one whose token is the one asked for
token_approval(doc, token) ==
    Approvals(doc)[CHOOSE i \in 1..Len(Approvals(doc)) :
                      /\ Approvals(doc)[i].token = token
                      /\ \A j \in 1..(i - 1) : Approvals(doc)[j].token # token]

\* value is the token asked for and, when found, the approval returned
get_application_by_signoff_token(token) ==
    LET id == find_by_token(token)
        result == IF id = NoId THEN "NotFound" ELSE "ok"
    IN  /\ last' = ServedWith("get_application_by_signoff_token", Anonymous, id,
                              NoStatus, result,
                              IF result = "ok"
                              THEN << token, token_approval(applications[id], token) >>
                              ELSE << token >>)
        /\ UNCHANGED <<applications, now, issued, calls>>

(***************************************************************************)
(* GET /applications/{id}/signoff/status                                   *)
(***************************************************************************)
\* application.signoff_workflow is read from the Application object; an object
\* without that attribute raises AttributeError
get_signoff_status_result(application) ==
    IF "signoff_workflow" \notin DOMAIN application THEN "ServerError" ELSE "ok"

\* current_status, completed_approvals, total_approvals
signoff_status_response(application) ==
    LET signoff_workflow == application.signoff_workflow
        approvals == IF signoff_workflow = << >> THEN << >>
                     ELSE signoff_workflow[1].approvals
    IN  << IF signoff_workflow = << >> THEN "Not initiated"
           ELSE signoff_workflow[1].status,
           Cardinality({i \in 1..Len(approvals) :
                           approvals[i].status \in {"approved", "rejected"}}),
           Len(approvals) >>

get_signoff_status(user, id) ==
    LET result == IF ~Exists(id) THEN "NotFound"
                  ELSE get_signoff_status_result(Application(applications[id]))
    IN  /\ last' = ServedWith("get_signoff_status", user, id, NoStatus, result,
                              IF result = "ok"
                              THEN signoff_status_response(Application(applications[id]))
                              ELSE << >>)
        /\ UNCHANGED <<applications, now, issued, calls>>

(***************************************************************************)
(* The same handler as the steps between its awaits, run by client c.      *)
(***************************************************************************)
Free(c) == calls[c].pc \in {"idle", "done"}

\* application = await find_one({...approvals.token: token})
decide_find(c, token, decision, comments) ==
    LET id == find_by_token(token)
    IN  /\ Free(c)
        /\ calls' = [calls EXCEPT ![c] =
              [Idle EXCEPT !.op = "submit_signoff_approval", !.token = token,
                           !.status = decision, !.comments = comments, !.id = id,
                           !.pc = IF id = NoId THEN "done" ELSE "found",
                           !.result = IF id = NoId THEN "NotFound" ELSE "none"]]
        /\ UNCHANGED <<applications, now, issued, last>>

\* result = await update_one({_id, ...approvals.token: token}, {$set: approvals.$...})
decide_write(c) ==
    LET call == calls[c]
        matched == Exists(call.id) /\ HoldsToken(applications[call.id], call.token)
    IN  /\ call.pc = "found"
        /\ applications' =
              IF matched
              THEN [applications EXCEPT
                       ![call.id] = set_approval(@, call.token, call.status,
                                                 call.comments)]
              ELSE applications
        /\ calls' = [calls EXCEPT
              ![c].pc = IF matched THEN "written" ELSE "done",
              ![c].result = IF matched THEN "none" ELSE "WriteFailed"]
        /\ UNCHANGED <<now, issued, last>>

\* updated_application = await find_one({_id}); workflow_status is computed from it
decide_read(c) ==
    LET call == calls[c]
    IN  /\ call.pc = "written"
        /\ Exists(call.id)
        /\ calls' = [calls EXCEPT
              ![c].pc = "read",
              ![c].seen = << workflow_status(Approvals(applications[call.id])) >>]
        /\ UNCHANGED <<applications, now, issued, last>>

\* await update_one({_id}, {$set: {signoff_workflow.status: workflow_status}})
decide_update(c) ==
    LET call == calls[c]
    IN  /\ call.pc = "read"
        /\ Exists(call.id) /\ HasWorkflow(applications[call.id])
        /\ applications' =
              [applications EXCEPT ![call.id] = set_workflow_status(@, call.seen[1])]
        /\ calls' = [calls EXCEPT ![c].pc = "done", ![c].result = "ok"]
        /\ UNCHANGED <<now, issued, last>>

(***************************************************************************)
(* The second status handler as the steps between its awaits.              *)
(***************************************************************************)
\* application = await get_application_by_id(...), then the permission checks
status_read(c, user, id, new_status, comments) ==
    LET result == IF ~Exists(id) THEN "NotFound"
                  ELSE status_result(user, Application(applications[id]), new_status)
    IN  /\ Free(c)
        /\ calls' = [calls EXCEPT ![c] =
              [Idle EXCEPT !.op = "update_application_status", !.user = user,
                           !.id = id, !.status = new_status, !.comments = comments,
                           !.seen = IF result = "ok"
                                    THEN << Application(applications[id]) >>
                                    ELSE << >>,
                           !.pc = IF result = "ok" THEN "checked" ELSE "done",
                           !.result = IF result = "ok" THEN "none" ELSE result]]
        /\ UNCHANGED <<applications, now, issued, last>>

\* result = await update_one({_id}, {$set: update_data})
status_write(c) ==
    LET call == calls[c]
    IN  /\ call.pc = "checked"
        /\ Exists(call.id)
        /\ OrElse(call.seen[1].revision_count, 0) < MaxRevision
        /\ applications' =
              [applications EXCEPT
                  ![call.id] = status_update(@, call.seen[1], call.status,
                                             call.comments, now)]
        /\ calls' = [calls EXCEPT ![c].pc = "done", ![c].result = "ok"]
        /\ UNCHANGED <<now, issued, last>>

(***************************************************************************)
(* The review endpoint as the steps between its awaits.                    *)
(***************************************************************************)
\* application = await get_application_by_id(...), then review_entry is built
review_read(c, user, id, comments, new_status) ==
    /\ Free(c)
    /\ calls' = [calls EXCEPT ![c] =
          [Idle EXCEPT !.op = "add_review_comment", !.user = user, !.id = id,
                       !.status = new_status, !.comments = comments,
                       !.seen = IF Exists(id)
                                THEN << review_entry(Application(applications[id]),
                                                     comments, new_status) >>
                                ELSE << >>,
                       !.pc = IF Exists(id) THEN "reviewed" ELSE "done",
                       !.result = IF Exists(id) THEN "none" ELSE "NotFound"]]
    /\ UNCHANGED <<applications, now, issued, last>>

\* result = await update_one({_id}, {$push: ..., $set: ...})
review_push(c) ==
    LET call == calls[c]
    IN  /\ call.pc = "reviewed"
        /\ Exists(call.id)
        /\ Len(applications[call.id].reviewHistory) < MaxHistory
        /\ applications' =
              [applications EXCEPT
                  ![call.id] = review_update(@, call.seen[1], call.status)]
        /\ calls' = [calls EXCEPT ![c].pc = "done", ![c].result = "ok"]
        /\ UNCHANGED <<now, issued, last>>

(***************************************************************************)
(* delete_application of the service, and the handlers' steps that meet an *)
(* application that is gone.                                               *)
(***************************************************************************)
\* await db.applications.delete_one({_id})
delete_application(id) ==
    /\ applications' = [i \in DOMAIN applications \ {id} |-> applications[i]]
    /\ UNCHANGED <<now, issued, last, calls>>

\* find_one returns None and updated_application.get raises AttributeError
decide_read_gone(c) ==
    LET call == calls[c]
    IN  /\ call.pc = "written"
        /\ ~Exists(call.id)
        /\ calls' = [calls EXCEPT ![c].pc = "done", ![c].result = "ServerError"]
        /\ UNCHANGED <<applications, now, issued, last>>

\* the update_one of signoff_workflow.status matches no document; its result is
\* not looked at and the handler returns its success message
decide_update_gone(c) ==
    LET call == calls[c]
    IN  /\ call.pc = "read"
        /\ ~Exists(call.id)
        /\ calls' = [calls EXCEPT ![c].pc = "done", ![c].result = "ok"]
        /\ UNCHANGED <<applications, now, issued, last>>

(***************************************************************************)
(* withdraw and initiate as the steps between their awaits.                *)
(***************************************************************************)
\* application = await get_application_by_id(...), then the checks
withdraw_read(c, user, id) ==
    LET result == IF ~Exists(id) THEN "NotFound"
                  ELSE withdraw_result(user, Application(applications[id]), now)
    IN  /\ Free(c)
        /\ calls' = [calls EXCEPT ![c] =
              [Idle EXCEPT !.op = "withdraw_application", !.user = user, !.id = id,
                           !.status = "withdrawn",
                           !.pc = IF result = "ok" THEN "withdrawing" ELSE "done",
                           !.result = IF result = "ok" THEN "none" ELSE result]]
        /\ UNCHANGED <<applications, now, issued, last>>

\* result = await update_one({_id}, {$set: {status: withdrawn, updated_at}})
withdraw_write(c) ==
    LET call == calls[c]
    IN  /\ call.pc = "withdrawing"
        /\ applications' =
              IF Exists(call.id)
              THEN [applications EXCEPT ![call.id].status = "withdrawn"]
              ELSE applications
        /\ calls' = [calls EXCEPT
              ![c].pc = "done",
              ![c].result = IF Exists(call.id) THEN "ok" ELSE "WriteFailed"]
        /\ UNCHANGED <<now, issued, last>>

\* application = await get_application_by_id(...), then the checks; seen holds the
\* approvers and the award amount of the request
initiate_read(c, user, id, approvers, award_amount) ==
    LET result == initiate_result(user, id)
    IN  /\ Free(c)
        /\ calls' = [calls EXCEPT ![c] =
              [Idle EXCEPT !.op = "initiate_application_signoff", !.user = user,
                           !.id = id, !.seen = << approvers, award_amount >>,
                           !.pc = IF result = "ok" THEN "initiating" ELSE "done",
                           !.result = IF result = "ok" THEN "none" ELSE result]]
        /\ UNCHANGED <<applications, now, issued, last>>

\* the tokens are drawn, then result = await update_one({_id}, {$set: update_data})
initiate_write(c) ==
    LET call == calls[c]
    IN  /\ call.pc = "initiating"
        /\ issued + Len(call.seen[1]) <= MaxTokens
        /\ applications' =
              IF Exists(call.id)
              THEN [applications EXCEPT
                       ![call.id] = initiate_update(@, call.seen[1], call.seen[2],
                                                    issued)]
              ELSE applications
        /\ issued' = issued + Len(call.seen[1])
        /\ calls' = [calls EXCEPT
              ![c].pc = "done",
              ![c].result = IF Exists(call.id) THEN "ok" ELSE "WriteFailed"]
        /\ UNCHANGED <<now, last>>

(***************************************************************************)
(* sync_review_fields.py, run with no other writer                         *)
(***************************************************************************)
\* the comment of the oldest entry, review_history[0]
latest_comment_oldest(doc) == doc.reviewHistory[1].comments

\* latest_comment = review_history[-1].get("comments", "")
latest_comment(doc) == doc.reviewHistory[Len(doc.reviewHistory)].comments

\* the application is found by the query and its comment differs from the latest
needs_sync(doc) ==
    doc.reviewHistory # << >> /\ latest_comment(doc) # doc.reviewComments

\* the document after the loop body
sync_update(doc) ==
    IF needs_sync(doc) THEN [doc EXCEPT !.reviewComments = latest_comment(doc)]
    ELSE doc

\* the whole script; value is updated_count
sync_review_fields ==
    /\ applications' =
          [id \in DOMAIN applications |-> sync_update(applications[id])]
    /\ last' = ServedWith("sync_review_fields", Anonymous, NoId, NoStatus, "ok",
                          << Cardinality({id \in DOMAIN applications :
                                            needs_sync(applications[id])}) >>)
    /\ UNCHANGED <<now, issued, calls>>

(***************************************************************************)
(* Specifications.  Each one serves the handlers above to a set of clients *)
(* and inputs; a request is served when the previous response has gone.    *)
(***************************************************************************)
Ready == last = NoRequest

\* the application a researcher has just created
CreatedApplication == NewApplication(Researcher.email, None, FALSE, 1)

InitCommon ==
    /\ issued = 0
    /\ last = NoRequest
    /\ calls = [c \in Clients |-> Idle]

\* The status operations, one request at a time.
Init ==
    /\ applications \in {(SampleId :> SampleApplication),
                         (SampleId :> CreatedApplication)}
    /\ now = 1
    /\ InitCommon

StatusUpdates ==
    {[NoUpdate EXCEPT !.status = s] : s \in {None, Some("approved"), Some(Bogus)}}

Next ==
    \/ respond
    \/ \E user \in Users, id \in AppIds \cup {NoId}, s \in StatusInputs,
          c \in CommentInputs :
          Ready /\ update_application_status_managers(user, id, s, c)
    \/ \E user \in Users, id \in AppIds \cup {NoId}, s \in StatusInputs,
          c \in CommentInputs :
          Ready /\ update_application_status(user, id, s, c)
    \/ \E user \in Users, id \in AppIds \cup {NoId} :
          Ready /\ withdraw_application(user, id)
    \/ \E user \in Users, id \in AppIds \cup {NoId}, upd \in StatusUpdates :
          Ready /\ update_application_info(user, id, upd)

Spec == Init /\ [][Next]_vars

\* The review ledger next to the managers' status handler.
ReviewStatusInputs == {NoStatus, "under_review", "approved", Bogus}

NextLedger ==
    \/ respond
    \/ \E user \in Users, id \in AppIds \cup {NoId}, s \in ReviewStatusInputs,
          c \in CommentInputs :
          Ready /\ add_review_comment(user, id, c, s)
    \/ \E s \in {"needs_revision", "approved"}, c \in CommentInputs :
          Ready /\ update_application_status_managers(Manager, SampleId, s, c)

SpecLedger == Init /\ [][NextLedger]_vars

\* Revision lineage: resubmission cycles while time passes.
LineageStatuses == {"submitted", "needs_revision", "rejected"}
LineageUpdates ==
    {[NoUpdate EXCEPT !.revisionCount = Some(0)],
     [NoUpdate EXCEPT !.originalSubmissionDate = Some(now)]}

NextLineage ==
    \/ respond
    \/ Ready /\ Tick
    \/ \E user \in {Researcher, Manager}, s \in LineageStatuses :
          Ready /\ update_application_status(user, SampleId, s, "")
    \/ \E s \in LineageStatuses :
          Ready /\ update_application_status_managers(Manager, SampleId, s, "")
    \/ \E user \in {Researcher, Manager}, upd \in LineageUpdates :
          Ready /\ update_application_info(user, SampleId, upd)

SpecLineage == Init /\ [][NextLineage]_vars

\* The sign-off workflow, one request at a time.
DecisionInputs == {"approved", "rejected", "deferred"}
AwardInputs == {500000}

NextSignoff ==
    \/ respond
    \/ \E user \in {Manager, Admin}, id \in AppIds \cup {NoId},
          n \in 0..MaxApprovers, award \in AwardInputs :
          Ready /\ initiate_application_signoff(user, id, Approvers(n), award)
    \/ \E token \in 0..MaxTokens, d \in DecisionInputs, c \in CommentInputs :
          Ready /\ submit_signoff_approval(token, d, c)
    \/ \E s \in {"approved", "rejected"} :
          Ready /\ update_application_status_managers(Manager, SampleId, s, "")

InitSignoff ==
    /\ applications = (SampleId :> SampleApplication)
    /\ now = 1
    /\ InitCommon

SpecSignoff == InitSignoff /\ [][NextSignoff]_vars

\* Decisions of several approvers in flight at once, on a workflow that a manager
\* initiated for MaxApprovers approvers.
PendingWorkflow ==
    initiate_update(SampleApplication, Approvers(MaxApprovers), 500000, 0)

InitDecide ==
    /\ applications = (SampleId :> PendingWorkflow)
    /\ now = 1
    /\ issued = MaxApprovers
    /\ last = NoRequest
    /\ calls = [c \in Clients |-> Idle]

NextDecide ==
    \/ \E c \in Clients, token \in 0..MaxApprovers, d \in DecisionInputs :
          decide_find(c, token, d, "")
    \/ \E c \in Clients : decide_write(c)
    \/ \E c \in Clients : decide_read(c)
    \/ \E c \in Clients : decide_update(c)

SpecDecide == InitDecide /\ [][NextDecide]_vars

\* Status requests in flight at once, on an application sent back for revision.
SentBack == managers_status_update(CreatedApplication, "needs_revision", "fix budget")

InitResubmit ==
    /\ applications = (SampleId :> SentBack)
    /\ now = 1
    /\ InitCommon

NextResubmit ==
    \/ \E c \in Clients, user \in {Researcher, Manager},
          s \in {"submitted", "needs_revision"} :
          status_read(c, user, SampleId, s, "")
    \/ \E c \in Clients : status_write(c)

SpecResubmit == InitResubmit /\ [][NextResubmit]_vars

\* Withdrawal of applications submitted with and without a deadline, while time
\* passes.  A deadline is absent, naive (no UTC offset) or timezone-aware.
DeadlineInputs ==
    { <<None, FALSE>>, <<Some(SeedDeadline), FALSE>>, <<Some(SeedDeadline), TRUE>> }

InitWithdraw ==
    /\ applications = << >>
    /\ now = 1
    /\ InitCommon

NextWithdraw ==
    \/ respond
    \/ Ready /\ Tick
    \/ \E user \in {Researcher, Researcher2}, d \in DeadlineInputs :
          Ready /\ submit_application(user, Researcher.email, d[1], d[2])
    \/ \E user \in Users, id \in AppIds \cup {NoId} :
          Ready /\ withdraw_application(user, id)
    \/ \E s \in {"submitted", "under_review", "approved"} :
          Ready /\ update_application_status_managers(Manager, SampleId, s, "")

SpecWithdraw == InitWithdraw /\ [][NextWithdraw]_vars

\* The repair script next to the operations that write review comments, on a
\* database of two applications: the sample one, whose ledger has an entry, and a
\* newly created one, whose ledger is empty.
CreatedId == 2
RepairIds == {SampleId, CreatedId}

InitRepair ==
    /\ applications = (SampleId :> SampleApplication) @@ (CreatedId :> CreatedApplication)
    /\ now = 1
    /\ InitCommon

NextRepair ==
    \/ respond
    \/ Ready /\ sync_review_fields
    \/ \E id \in RepairIds, c \in CommentInputs, s \in {NoStatus, "under_review"} :
          Ready /\ add_review_comment(Reviewer, id, c, s)
    \/ \E id \in RepairIds :
          Ready /\ update_application_status_managers(Manager, id, "needs_revision",
                                                      "fix budget")

SpecRepair == InitRepair /\ [][NextRepair]_vars

\* Review appends in flight at once, next to the other operations on the
\* application.
AppendUpdates == {[NoUpdate EXCEPT !.reviewComments = Some("fix budget")]}

NextAppend ==
    \/ \E c \in Clients, s \in {NoStatus, "under_review"} :
          review_read(c, Reviewer, SampleId, "fix budget", s)
    \/ \E c \in Clients : review_push(c)
    \/ respond
    \/ Ready /\ sync_review_fields
    \/ Ready /\ update_application_status_managers(Manager, SampleId,
                                                    "needs_revision", "fix budget")
    \/ Ready /\ update_application_status(Researcher, SampleId, "submitted", "")
    \/ Ready /\ withdraw_application(Researcher, SampleId)
    \/ \E upd \in AppendUpdates :
          Ready /\ update_application_info(Researcher, SampleId, upd)

SpecAppend == Init /\ [][NextAppend]_vars

\* Sign-off on two approved applications: initiation and re-initiation with
\* different award amounts, decisions, lookups by token and status queries.
ApprovedApplication == managers_status_update(CreatedApplication, "approved", "")
AwardAmounts == {500000, 750000}

InitTokens ==
    /\ applications = (SampleId :> SampleApplication) @@ (CreatedId :> ApprovedApplication)
    /\ now = 1
    /\ InitCommon

NextTokens ==
    \/ respond
    \/ \E id \in RepairIds, n \in 1..MaxApprovers, award \in AwardAmounts :
          Ready /\ initiate_application_signoff(Manager, id, Approvers(n), award)
    \/ \E token \in 0..MaxTokens, d \in {"approved", "rejected"} :
          Ready /\ submit_signoff_approval(token, d, "")
    \/ \E token \in 0..MaxTokens :
          Ready /\ get_application_by_signoff_token(token)
    \/ \E id \in RepairIds \cup {NoId} :
          Ready /\ get_signoff_status(Manager, id)

SpecTokens == InitTokens /\ [][NextTokens]_vars

\* Submissions whose bodies carry keys the schema does not declare, into an empty
\* database, while time passes.
CreateBodies ==
    {Body(e, d[1], d[2]) : e \in {Researcher.email, Researcher2.email},
                           d \in {<<None, FALSE>>, <<Some(SeedDeadline), FALSE>>}}
    \cup
    {ForgedBody(e, d[1], d[2]) : e \in {Researcher.email, Researcher2.email},
                                 d \in {<<None, FALSE>>, <<Some(SeedDeadline), FALSE>>}}

NextCreate ==
    \/ respond
    \/ Ready /\ Tick
    \/ \E user \in {Researcher, Researcher2}, body \in CreateBodies :
          Ready /\ submit_application_data(user, body)

SpecCreate == InitWithdraw /\ [][NextCreate]_vars

\* The operations as a client reaches them over HTTP, on an application a
\* researcher has just submitted.
InitRouted ==
    /\ applications = (SampleId :> CreatedApplication)
    /\ now = 1
    /\ InitCommon

NextRouted ==
    \/ respond
    \/ \E user \in {Researcher, Manager},
          s \in {"needs_revision", "submitted", "approved"}, c \in CommentInputs :
          Ready /\ put_application_status(user, SampleId, s, c)
    \/ Ready /\ initiate_application_signoff(Manager, SampleId, Approvers(2), 500000)
    \/ \E token \in 1..MaxTokens :
          Ready /\ submit_signoff_approval(token, "approved", "")

SpecRouted == InitRouted /\ [][NextRouted]_vars

\* A status request in flight next to a review append or a decision of another
\* client, with withdrawals and info updates served in between, on an approved
\* application whose workflow is pending.
PendingApproved ==
    initiate_update(ApprovedApplication, Approvers(MaxApprovers), 500000, 0)
OverlapUpdates == {[NoUpdate EXCEPT !.status = Some("approved")]}

InitOverlap ==
    /\ applications = (SampleId :> PendingApproved)
    /\ now = 1
    /\ issued = MaxApprovers
    /\ last = NoRequest
    /\ calls = [c \in Clients |-> Idle]

NextOverlap ==
    \/ status_read(1, Manager, SampleId, "rejected", "")
    \/ status_write(1)
    \/ review_read(2, Reviewer, SampleId, "fix budget", "under_review")
    \/ review_push(2)
    \/ \E token \in 1..MaxApprovers : decide_find(2, token, "approved", "")
    \/ decide_write(2)
    \/ decide_read(2)
    \/ decide_update(2)
    \/ respond
    \/ Ready /\ withdraw_application(Researcher, SampleId)
    \/ \E upd \in OverlapUpdates :
          Ready /\ update_application_info(Researcher, SampleId, upd)
    \/ Ready /\ update_application_status_managers(Manager, SampleId,
                                                    "needs_revision", "fix budget")

SpecOverlap == InitOverlap /\ [][NextOverlap]_vars

\* A withdrawal or an initiation in flight in one client and a decision in
\* another, next to a manager's transitions and the removal of the application.
NextRace ==
    \/ respond
    \/ \E s \in {"approved", "rejected"} :
          Ready /\ update_application_status_managers(Manager, SampleId, s, "")
    \/ withdraw_read(1, Researcher, SampleId)
    \/ withdraw_write(1)
    \/ initiate_read(1, Manager, SampleId, Approvers(1), 500000)
    \/ initiate_write(1)
    \/ \E token \in 1..MaxTokens : decide_find(2, token, "approved", "")
    \/ decide_write(2)
    \/ decide_read(2)
    \/ decide_update(2)
    \/ decide_read_gone(2)
    \/ decide_update_gone(2)
    \/ delete_application(SampleId)

SpecRace == InitRouted /\ [][NextRace]_vars

(***************************************************************************)
(* Properties.                                                             *)
(***************************************************************************)
\* the step serves a request: last' describes it, the unprimed state precedes it
Serves == last = NoRequest /\ last' # NoRequest
StatusHandlers == {"update_application_status_managers", "update_application_status"}
Workflow(id) == applications[id].signoff_workflow[1]
ApprovalStatuses(id) ==
    {Workflow(id).approvals[i].status : i \in 1..Len(Workflow(id).approvals)}

\* C1: after every decide that is served alone, for any number of approvers and any
\* order of decisions, the stored aggregate status is approved iff every approval is
\* approved, rejected iff at least one approval is rejected, and pending otherwise.
C1_AggregateAfterDecide ==
    (last.op = "submit_signoff_approval" /\ last.result = "ok") =>
        /\ Len(Workflow(last.id).approvals) >= 1
        /\ Workflow(last.id).status = "approved"
               <=> ApprovalStatuses(last.id) = {"approved"}
        /\ Workflow(last.id).status = "rejected"
               <=> "rejected" \in ApprovalStatuses(last.id)
        /\ Workflow(last.id).status = "pending"
               <=> /\ ApprovalStatuses(last.id) # {"approved"}
                   /\ "rejected" \notin ApprovalStatuses(last.id)

\* the second approver rejects after the first approved: the workflow is rejected
C1_Witness ==
    /\ last.op = "submit_signoff_approval" /\ last.result = "ok"
    /\ last.status = "rejected"
    /\ Len(Workflow(last.id).approvals) = 2
    /\ Workflow(last.id).approvals[1].status = "approved"
    /\ Workflow(last.id).approvals[2].status = "rejected"
    /\ Workflow(last.id).status = "rejected"

\* C2: once two overlapping decides on two different approvals have both finished,
\* both decisions are stored and the stored aggregate status is the one the
\* aggregation rule gives for the stored approvals.
C2_NoLostUpdate ==
    \A c1, c2 \in Clients :
        ( /\ c1 # c2
          /\ calls[c1].pc = "done" /\ calls[c1].result = "ok"
          /\ calls[c2].pc = "done" /\ calls[c2].result = "ok"
          /\ calls[c1].token # calls[c2].token )
        => /\ \A c \in {c1, c2} :
                \E i \in 1..Len(Workflow(SampleId).approvals) :
                    /\ Workflow(SampleId).approvals[i].token = calls[c].token
                    /\ Workflow(SampleId).approvals[i].status = calls[c].status
           /\ Workflow(SampleId).status = workflow_status(Workflow(SampleId).approvals)

\* C3: a decide on an approval whose status is already approved or rejected never
\* overwrites its status or comments.
C3_DecidedApprovalKept ==
    [][ \A i \in 1..Len(Approvals(applications[SampleId])) :
            Approvals(applications[SampleId])[i].status \in {"approved", "rejected"}
            => Approvals(applications'[SampleId])[i]
                   = Approvals(applications[SampleId])[i] ]_vars

\* C4: every attempt of a Researcher to set the status of an application they do not
\* own, through any operation that can set status, fails with Forbidden and leaves
\* the application unchanged.
C4_NonOwnerForbidden ==
    [][ ( /\ Serves
          /\ last'.op \in StatusHandlers \cup
                 {"withdraw_application", "add_review_comment",
                  "update_application_info"}
          /\ last'.status # NoStatus
          /\ last'.user.role = "Researcher"
          /\ Exists(last'.id)
          /\ applications[last'.id].email # last'.user.email )
        => /\ last'.result = "Forbidden"
           /\ applications' = applications ]_vars

\* C5: revision_count increases by exactly 1 each time the status goes from editable
\* or needs_revision to submitted, whichever actor or handler performs the
\* transition, and changes at no other time.
C5_RevisionCountTracksResubmissions ==
    [][ \A id \in DOMAIN applications :
            LET before == Application(applications[id])
                after == Application(applications'[id])
            IN  IF /\ before.status \in {"editable", "needs_revision"}
                   /\ after.status = "submitted"
                THEN OrElse(after.revision_count, 0)
                         = OrElse(before.revision_count, 0) + 1
                ELSE OrElse(after.revision_count, 0)
                         = OrElse(before.revision_count, 0) ]_vars

\* C6: once original_submission_date holds a value, no operation gives it a
\* different value.
C6_OriginalSubmissionDateSetOnce ==
    [][ \A id \in DOMAIN applications :
            Application(applications[id]).original_submission_date # None
            => Application(applications'[id]).original_submission_date
                   = Application(applications[id]).original_submission_date ]_vars

\* C7: two overlapping resubmissions of an application do not both succeed as
\* resubmissions of the same revision: of the resubmissions that reported success,
\* each one counts in revision_count.
C7_AtomicResubmission ==
    \A c1, c2 \in Clients :
        ( /\ c1 # c2
          /\ \A c \in {c1, c2} :
                /\ calls[c].pc = "done" /\ calls[c].result = "ok"
                /\ is_resubmission(calls[c].seen[1], calls[c].status) )
        => calls[c1].seen[1].revision_count # calls[c2].seen[1].revision_count

\* C8: the status of an application is always one of the eleven known states.
C8_StatusIsKnown ==
    \A id \in DOMAIN applications :
        applications[id].status \in
            { "submitted", "under_review", "editable", "needs_revision", "approved",
              "rejected", "withdrawn", "awaiting_signoff", "signoff_complete",
              "contract_pending", "contract_received" }

\* the request is a status transition asked by the Researcher who owns the application
OwnerStatusRequest ==
    /\ Serves
    /\ last'.op \in StatusHandlers
    /\ last'.user.role = "Researcher"
    /\ Exists(last'.id)
    /\ applications[last'.id].email = last'.user.email

C12_EditableTracksStatus ==
    [][ ( /\ Serves
          /\ last'.op \in StatusHandlers
          /\ last'.result = "ok" )
        => Application(applications'[last'.id]).is_editable
               = Some(last'.status \in {"needs_revision", "editable"}) ]_vars

\* C13: an owner's withdraw of an application in a withdrawable status fails with
\* DeadlinePassed, leaving the application unchanged, when the application has a
\* deadline and the current time is after it; otherwise it succeeds and the status
\* becomes withdrawn.
C13_WithdrawByDeadline ==
    [][ ( /\ Serves
          /\ last'.op = "withdraw_application"
          /\ Exists(last'.id)
          /\ applications[last'.id].email = last'.user.email
          /\ applications[last'.id].status \in {"submitted", "under_review"} )
        => IF /\ applications[last'.id].deadline # None
              /\ now > Get(applications[last'.id].deadline)
           THEN /\ last'.result = "DeadlinePassed"
                /\ applications' = applications
           ELSE /\ last'.result = "ok"
                /\ applications'[last'.id].status = "withdrawn" ]_vars

\* C14: withdraw succeeds only for the owner and only from submitted or
\* under_review: a non-owner gets Forbidden whatever their role, an owner's withdraw
\* from any other status fails, and in both cases the application is unchanged.
C14_WithdrawOwnerAndStatus ==
    [][ ( /\ Serves
          /\ last'.op = "withdraw_application"
          /\ Exists(last'.id) )
        => LET owner == applications[last'.id].email = last'.user.email
               allowed == applications[last'.id].status \in {"submitted", "under_review"}
           IN  /\ ~owner => /\ last'.result = "Forbidden"
                            /\ applications' = applications
               /\ (owner /\ ~allowed) => /\ last'.result = "NotWithdrawable"
                                         /\ applications' = applications
               /\ last'.result = "ok" => /\ owner /\ allowed
                                        /\ applications'[last'.id].status = "withdrawn"
          ]_vars

\* the owner tried to withdraw an approved application and was refused
C14_Witness ==
    /\ last = Served("withdraw_application", Researcher, SampleId, "withdrawn",
                     "NotWithdrawable")
    /\ applications[SampleId].email = Researcher.email
    /\ applications[SampleId].status = "approved"

\* the last entry of an application's review ledger
LastEntry(doc) == doc.reviewHistory[Len(doc.reviewHistory)]
\* review_comments is the comment of the last entry, if there is an entry
Synced(doc) ==
    doc.reviewHistory # << >> => doc.reviewComments = LastEntry(doc).comments
IsPrefix(s, t) == Len(s) <= Len(t) /\ SubSeq(t, 1, Len(s)) = s

\* C15: a review append that supplies new_status performs the status transition:
\* if the status is known and the status policy admits the user, the application
\* ends with status = new_status, is_editable = (new_status is needs_revision or
\* editable) and review_comments = the entry's comments; otherwise the append fails
\* and the application is unchanged.
C15_AppendPerformsTransition ==
    [][ ( /\ Serves
          /\ last'.op = "add_review_comment"
          /\ last'.status # NoStatus
          /\ Exists(last'.id) )
        => IF /\ last'.status \in valid_statuses
              /\ status_result(last'.user, Application(applications[last'.id]),
                               last'.status) = "ok"
           THEN /\ last'.result = "ok"
                /\ applications'[last'.id].status = last'.status
                /\ Application(applications'[last'.id]).is_editable
                       = Some(last'.status \in {"needs_revision", "editable"})
                /\ applications'[last'.id].reviewComments
                       = LastEntry(applications'[last'.id]).comments
           ELSE /\ last'.result # "ok"
                /\ applications' = applications ]_vars

\* C16: after every review append review_comments equals the comments of the last
\* ledger entry, and an operation that appends nothing keeps them equal.
C16_ReviewCommentsIsLatestEntry ==
    [][ \A id \in DOMAIN applications :
           LET before == applications[id]
               after == applications'[id]
           IN  /\ after.reviewHistory # before.reviewHistory => Synced(after)
               /\ (after.reviewHistory = before.reviewHistory /\ Synced(before))
                  => Synced(after) ]_vars

\* C17: a run of sync_review_fields leaves every application with a non-empty
\* ledger with review_comments equal to the last entry's comments, changes nothing
\* else, reports the number of applications it changed, and on a database where
\* every application is in that state already (as after a first run) it changes
\* nothing and reports zero.
C17_SyncIsIdempotentRebuild ==
    [][ ( Serves /\ last'.op = "sync_review_fields" )
        => /\ DOMAIN applications' = DOMAIN applications
           /\ \A id \in DOMAIN applications :
                 /\ applications'[id] =
                        [applications[id] EXCEPT
                            !.reviewComments = applications'[id].reviewComments]
                 /\ Synced(applications'[id])
                 /\ applications[id].reviewHistory = << >>
                        => applications'[id] = applications[id]
           /\ last'.value =
                  << Cardinality({id \in DOMAIN applications :
                                     applications'[id] # applications[id]}) >>
           /\ (\A id \in DOMAIN applications : Synced(applications[id]))
                  => applications' = applications /\ last'.value = << 0 >> ]_vars

\* the script repaired the sample application, whose ledger holds two entries, and
\* left the newly created one, whose ledger is empty, alone
C17_Witness ==
    /\ last.op = "sync_review_fields" /\ last.value = << 1 >>
    /\ Len(applications[SampleId].reviewHistory) = 2
    /\ applications[SampleId].reviewComments = "fix budget"
    /\ applications[SampleId].reviewHistory[1].comments # "fix budget"
    /\ applications[CreatedId] = CreatedApplication

\* C18: across every operation the ledger before is a prefix of the ledger after
\* and grows by at most one entry; a completed append adds exactly its own entry at
\* the end, so of two overlapping appends both entries end up in the ledger.
C18_LedgerAppendOnly ==
    [][ /\ \A id \in DOMAIN applications :
              /\ id \in DOMAIN applications'
              /\ IsPrefix(applications[id].reviewHistory,
                          applications'[id].reviewHistory)
              /\ Len(applications'[id].reviewHistory)
                     <= Len(applications[id].reviewHistory) + 1
        /\ \A c \in Clients :
              ( /\ calls[c].pc = "reviewed"
                /\ calls'[c].pc = "done" /\ calls'[c].result = "ok" )
              => applications'[calls[c].id].reviewHistory
                     = Append(applications[calls[c].id].reviewHistory,
                              calls[c].seen[1]) ]_vars

\* two appends that read the application while it was submitted have both
\* finished, and both entries are in the ledger
C18_Witness ==
    /\ \A c \in Clients : /\ calls[c].pc = "done" /\ calls[c].result = "ok"
                           /\ calls[c].op = "add_review_comment"
    /\ calls[1].status = NoStatus /\ calls[2].status = "under_review"
    /\ calls[2].seen[1].status = "under_review"
    /\ applications[SampleId].reviewHistory = << calls[2].seen[1], calls[1].seen[1] >>
    /\ calls[1].seen[1].status = "submitted"

\* C19: a Grants Manager's sign-off initiation on an application whose status is
\* not approved fails with InvalidState, issues no token and leaves the application
\* unchanged; on an application whose status is approved it succeeds.
C19_InitiateNeedsApproved ==
    [][ ( /\ Serves
          /\ last'.op = "initiate_application_signoff"
          /\ last'.user.role = "Grants Manager"
          /\ Exists(last'.id) )
        => IF applications[last'.id].status = "approved"
           THEN /\ last'.result = "ok"
                /\ HasWorkflow(applications'[last'.id])
           ELSE /\ last'.result = "InvalidState"
                /\ last'.value = << >>
                /\ issued' = issued
                /\ applications' = applications ]_vars

\* initiation was refused on a rejected application, which holds no workflow
C19_Witness ==
    /\ last.op = "initiate_application_signoff"
    /\ last.user = Manager
    /\ last.result = "InvalidState"
    /\ applications[SampleId].status = "rejected"
    /\ ~HasWorkflow(applications[SampleId])

\* C20: a successful initiation stores a workflow with aggregate status pending that
\* holds one approval per approver, in the approvers' order, each pending and with a
\* token of its own, and returns exactly those tokens in the same order.
C20_InitiateStoresApprovalsAndTokens ==
    [][ ( /\ Serves
          /\ last'.op = "initiate_application_signoff"
          /\ last'.result = "ok" )
        => /\ HasWorkflow(applications'[last'.id])
           /\ LET workflow == applications'[last'.id].signoff_workflow[1]
                  tokens == last'.value
              IN  /\ workflow.status = "pending"
                  /\ Len(workflow.approvals) = Len(tokens)
                  /\ \A i \in 1..Len(tokens) :
                        /\ workflow.approvals[i].status = "pending"
                        /\ workflow.approvals[i].token = tokens[i]
                        /\ workflow.approvals[i].role = ApproverRoles[i]
                        /\ \A j \in 1..Len(tokens) :
                              i # j => workflow.approvals[i].token
                                          # workflow.approvals[j].token ]_vars

\* a workflow of two approvers has just been initiated
C20_Witness ==
    /\ last.op = "initiate_application_signoff" /\ last.result = "ok"
    /\ Len(last.value) = 2
    /\ HasWorkflow(applications[SampleId])
    /\ Len(Workflow(SampleId).approvals) = 2
    /\ Workflow(SampleId).approvals[2].token = last.value[2]
    /\ Workflow(SampleId).status = "pending"

SignoffOps == {"initiate_application_signoff", "submit_signoff_approval"}

\* C21: neither sign-off initiation nor decide changes an application's top-level
\* status, whatever the aggregate outcome.
C21_SignoffKeepsStatus ==
    [][ ( Serves /\ last'.op \in SignoffOps )
        => /\ DOMAIN applications' = DOMAIN applications
           /\ \A id \in DOMAIN applications :
                 applications'[id].status = applications[id].status ]_vars

\* the last approver approved, the workflow is approved and the application is
\* still approved, not advanced
C21_Witness ==
    /\ last.op = "submit_signoff_approval" /\ last.result = "ok"
    /\ last.status = "approved"
    /\ Len(Workflow(last.id).approvals) = 2
    /\ Workflow(last.id).status = "approved"
    /\ applications[last.id].status = "approved"

\* C22: an initiation on an application that already has a pending workflow does
\* not replace that workflow, its approvals, its recorded decisions or its tokens.
C22_PendingWorkflowNotRecreated ==
    [][ ( /\ Serves
          /\ last'.op = "initiate_application_signoff"
          /\ Exists(last'.id)
          /\ HasWorkflow(applications[last'.id])
          /\ applications[last'.id].signoff_workflow[1].status = "pending" )
        => applications'[last'.id].signoff_workflow
               = applications[last'.id].signoff_workflow ]_vars

\* C23: once a workflow is stored, no operation changes the award_amount it holds.
C23_AwardAmountImmutable ==
    [][ \A id \in DOMAIN applications :
           HasWorkflow(applications[id])
           => /\ HasWorkflow(applications'[id])
              /\ applications'[id].signoff_workflow[1].award_amount
                     = applications[id].signoff_workflow[1].award_amount ]_vars

\* the approvals of the database, as (application, position) pairs
ApprovalSlots ==
    {<<id, i>> \in (DOMAIN applications) \X (1..MaxApprovers) :
        i <= Len(Approvals(applications[id]))}

\* C24: in every reachable state no two approvals, of the same workflow or of
\* workflows of different applications, hold the same token.
C24_TokensUnique ==
    \A a, b \in ApprovalSlots :
        a # b => Approvals(applications[a[1]])[a[2]].token
                    # Approvals(applications[b[1]])[b[2]].token

\* both applications hold a workflow of two approvals
C24_Witness ==
    /\ Len(Approvals(applications[SampleId])) = 2
    /\ Len(Approvals(applications[CreatedId])) = 2
    /\ Cardinality(ApprovalSlots) = 4

\* C25: lookup and decide with a token no approval holds yield NotFound and change
\* no application; lookup with a held token returns the application and exactly the
\* approval that holds the token, and changes nothing.
C25_UnknownTokenNotFound ==
    [][ ( Serves /\ last'.op \in {"get_application_by_signoff_token",
                                   "submit_signoff_approval"} )
        => LET token == last'.value[1]
               held == \E id \in DOMAIN applications :
                          HoldsToken(applications[id], token)
           IN  /\ ~held => /\ last'.result = "NotFound"
                           /\ applications' = applications
               /\ last'.op = "get_application_by_signoff_token"
                  => /\ applications' = applications
                     /\ held => /\ last'.result = "ok"
                                /\ HoldsToken(applications[last'.id], token)
                                /\ last'.value[2].token = token
                                /\ \E i \in 1..Len(Approvals(applications[last'.id])) :
                                      Approvals(applications[last'.id])[i]
                                          = last'.value[2] ]_vars

\* a lookup returned the second approval of a workflow, which a decision had
\* rejected
C25_Witness ==
    /\ last.op = "get_application_by_signoff_token" /\ last.result = "ok"
    /\ Len(Approvals(applications[last.id])) = 2
    /\ Approvals(applications[last.id])[2] = last.value[2]
    /\ last.value[2].token = last.value[1]
    /\ last.value[2].status = "rejected"

\* what the status query has to return for a stored document
StoredCounts(doc) ==
    << doc.signoff_workflow[1].status,
       Cardinality({i \in 1..Len(Approvals(doc)) : Approvals(doc)[i].status # "pending"}),
       Len(Approvals(doc)) >>

\* C26: the status query of an application with a workflow changes nothing and
\* returns the stored aggregate status, the number of approvals that are not
\* pending and the number of approvals.
C26_StatusQueryCounts ==
    [][ ( Serves /\ last'.op = "get_signoff_status" /\ Exists(last'.id)
          /\ HasWorkflow(applications[last'.id]) )
        => /\ last'.result = "ok"
           /\ last'.value = StoredCounts(applications[last'.id])
           /\ applications' = applications ]_vars

\* C27: the application-info update never changes status, is_editable,
\* revision_count or original_submission_date of the application.
C27_InfoUpdateKeepsLifecycle ==
    [][ ( Serves /\ last'.op = "update_application_info" /\ Exists(last'.id) )
        => LET before == Application(applications[last'.id])
               after == Application(applications'[last'.id])
           IN  /\ after.status = before.status
               /\ after.is_editable = before.is_editable
               /\ after.revision_count = before.revision_count
               /\ after.original_submission_date = before.original_submission_date
       ]_vars

\* C28: a submission whose email is the actor's creates exactly one application,
\* in status submitted and with no workflow, whatever the body carries; one whose
\* email differs is refused with Forbidden and creates nothing.
C28_CreatedSubmittedWithoutWorkflow ==
    [][ ( Serves /\ last'.op = "submit_application" )
        => IF last'.value[1].email = last'.user.email
           THEN /\ last'.result = "ok"
                /\ DOMAIN applications' = DOMAIN applications \cup {last'.id}
                /\ last'.id \notin DOMAIN applications
                /\ \A id \in DOMAIN applications : applications'[id] = applications[id]
                /\ applications'[last'.id].status = "submitted"
                /\ Application(applications'[last'.id]).status = "submitted"
                /\ ~HasWorkflow(applications'[last'.id])
           ELSE /\ last'.result = "Forbidden"
                /\ applications' = applications ]_vars

\* a body that asked for status approved and carried a workflow was accepted
C28_Witness ==
    /\ last.op = "submit_application" /\ last.result = "ok"
    /\ "status" \in DOMAIN last.value[1]
    /\ last.value[1].status = "approved"
    /\ last.value[1].signoff_workflow # << >>
    /\ applications[last.id].status = "submitted"
    /\ ~HasWorkflow(applications[last.id])

\* C29: each step of the example run succeeds when it is asked for in the state the
\* run has reached: a manager's needs_revision on a submitted application (is_editable
\* true), the owner's resubmission through the status operation (submitted,
\* revision_count 1, is_editable false, original_submission_date the first submission
\* date), a manager's approved, the initiation with two approvers (two tokens,
\* workflow pending) and the approvers' decisions (approved once both approved).
C29_ExampleRunSucceeds ==
    [][ Serves =>
        LET req == last'
            before == Application(applications[SampleId])
            after == Application(applications'[SampleId])
        IN  /\ ( req.op \in StatusHandlers /\ req.user = Manager
                 /\ before.status = "submitted" /\ req.status = "needs_revision" )
               => /\ req.result = "ok"
                  /\ after.status = "needs_revision"
                  /\ after.is_editable = Some(TRUE)
            /\ ( req.op \in StatusHandlers /\ req.user = Researcher
                 /\ before.status = "needs_revision" /\ req.status = "submitted"
                 /\ before.revision_count = None )
               => /\ req.result = "ok"
                  /\ after.status = "submitted"
                  /\ after.revision_count = Some(1)
                  /\ after.is_editable = Some(FALSE)
                  /\ after.original_submission_date = before.submission_date
            /\ ( req.op \in StatusHandlers /\ req.user = Manager
                 /\ before.status = "submitted" /\ req.status = "approved" )
               => /\ req.result = "ok"
                  /\ after.status = "approved"
            /\ ( req.op = "initiate_application_signoff" /\ before.status = "approved" )
               => /\ req.result = "ok"
                  /\ Len(req.value) = 2
                  /\ applications'[SampleId].signoff_workflow[1].status = "pending"
            /\ ( req.op = "submit_signoff_approval"
                 /\ HoldsToken(applications[SampleId], req.value[1]) )
               => /\ req.result = "ok"
                  /\ applications'[SampleId].signoff_workflow[1].status
                        = IF \A i \in 1..2 :
                                Approvals(applications'[SampleId])[i].status = "approved"
                          THEN "approved" ELSE "pending" ]_vars

\* a step that writes a status transition, a withdrawal or an info update
StatusStep ==
    \/ Serves /\ last'.op \in {"update_application_status_managers",
                               "withdraw_application", "update_application_info"}
    \/ \E c \in Clients : calls[c].pc = "checked" /\ calls'[c].pc = "done"

\* C30: the write of a status transition, of a withdrawal and of an info update,
\* whatever it overlaps, leaves the review ledger and the approvals of every
\* application as they were.
C30_StatusWritesKeepLedgerAndDecisions ==
    [][ StatusStep
        => \A id \in DOMAIN applications :
              /\ id \in DOMAIN applications'
              /\ applications'[id].reviewHistory = applications[id].reviewHistory
              /\ Approvals(applications'[id]) = Approvals(applications[id]) ]_vars

\* the status handler read the application while it was approved and wrote rejected
\* after another client's append had set under_review; the appended entry and an
\* approver's decision are still there
C30_Witness ==
    /\ calls[1].op = "update_application_status" /\ calls[1].result = "ok"
    /\ calls[1].seen[1].status = "approved"
    /\ calls[2].op = "add_review_comment" /\ calls[2].result = "ok"
    /\ applications[SampleId].status = "rejected"
    /\ applications[SampleId].reviewHistory # << >>
    /\ LastEntry(applications[SampleId]).status = "under_review"
    /\ \E i \in 1..Len(Approvals(applications[SampleId])) :
          Approvals(applications[SampleId])[i].status = "approved"

\* C32: the status transition refuses a Researcher who does not own the
\* application with Forbidden whatever is asked and whatever the current status,
\* refuses an owner's disallowed status with Forbidden whatever the current status,
\* answers InvalidTransition only after both, and changes nothing when it refuses.
C32_ChecksInOrder ==
    [][ ( Serves /\ last'.op \in StatusHandlers /\ Exists(last'.id)
          /\ last'.user.role = "Researcher" )
        => LET application == Application(applications[last'.id])
               owner == application.email = last'.user.email
           IN  /\ ~owner => last'.result = "Forbidden"
               /\ ( owner /\ last'.status # "submitted" ) => last'.result = "Forbidden"
               /\ last'.result = "InvalidTransition"
                  => /\ owner /\ last'.status = "submitted"
                     /\ application.status \notin
                           {"editable", "needs_revision", "rejected", "withdrawn"}
               /\ last'.result # "ok" => applications' = applications ]_vars

\* the owner asked for a status they may not ask for, on an application whose
\* status admits no resubmission either, and was answered Forbidden
C32_Witness ==
    /\ last.op = "update_application_status" /\ last.user = Researcher
    /\ last.status = "approved" /\ last.result = "Forbidden"
    /\ Exists(last.id)
    /\ applications[last.id].email = Researcher.email
    /\ applications[last.id].status = "approved"

\* C33: the entry an append adds holds the status of the application at the moment
\* of the append: new_status when one is given, the status stored at that moment
\* otherwise.
C33_EntryStatusInEffect ==
    [][ \A c \in Clients :
           ( calls[c].pc = "reviewed" /\ calls'[c].pc = "done"
             /\ calls'[c].result = "ok" )
           => LET id == calls[c].id
              IN  /\ LastEntry(applications'[id]).status = applications'[id].status
                  /\ calls[c].status = NoStatus
                     => LastEntry(applications'[id]).status = applications[id].status
       ]_vars

\* C34: the status of every approval and of every workflow is pending, approved or
\* rejected.
C34_DecisionValuesKnown ==
    \A id \in DOMAIN applications :
        HasWorkflow(applications[id])
        => /\ applications[id].signoff_workflow[1].status
                 \in {"pending", "approved", "rejected"}
           /\ \A i \in 1..Len(Approvals(applications[id])) :
                 Approvals(applications[id])[i].status
                     \in {"pending", "approved", "rejected"}

\* C36: a decide changes the status and comments of the approval that holds the
\* token and the aggregate status of its workflow, and nothing else: the other
\* approvals, every token and role, award_amount, the other keys of the
\* application and the other applications stay as they were.
C36_DecideFrame ==
    [][ ( Serves /\ last'.op = "submit_signoff_approval" /\ last'.result = "ok" )
        => LET id == last'.id
               token == last'.value[1]
               old == applications[id]
               new == applications'[id]
           IN  /\ DOMAIN applications' = DOMAIN applications
               /\ \A other \in DOMAIN applications \ {id} :
                     applications'[other] = applications[other]
               /\ [new EXCEPT !.signoff_workflow = old.signoff_workflow] = old
               /\ new.signoff_workflow[1].award_amount
                     = old.signoff_workflow[1].award_amount
               /\ Len(Approvals(new)) = Len(Approvals(old))
               /\ \A i \in 1..Len(Approvals(old)) :
                     /\ Approvals(new)[i].token = Approvals(old)[i].token
                     /\ Approvals(new)[i].role = Approvals(old)[i].role
                     /\ Approvals(old)[i].token # token
                        => Approvals(new)[i] = Approvals(old)[i] ]_vars

\* a decision was recorded in a workflow of two approvals whose other approval is
\* still pending, while the other application holds a workflow too
C36_Witness ==
    /\ last.op = "submit_signoff_approval" /\ last.result = "ok"
    /\ Len(Approvals(applications[last.id])) = 2
    /\ \E i, j \in 1..2 :
          /\ Approvals(applications[last.id])[i].token = last.value[1]
          /\ Approvals(applications[last.id])[i].status = last.status
          /\ Approvals(applications[last.id])[j].token # last.value[1]
          /\ Approvals(applications[last.id])[j].status = "pending"
    /\ \A id \in RepairIds : HasWorkflow(applications[id])

\* C37: the workflow status shown in the response of a successful decide is the
\* workflow status stored when the call ends.
C37_ResponseShowsAggregate ==
    [][ ( Serves /\ last'.op = "submit_signoff_approval" /\ last'.result = "ok" )
        => last'.value[2] = applications'[last'.id].signoff_workflow[1].status ]_vars

\* C38: a decide on a workflow whose aggregate status is approved or rejected
\* leaves that aggregate status as it is.
C38_AggregateFinal ==
    [][ ( Serves /\ last'.op = "submit_signoff_approval" /\ last'.result = "ok"
          /\ applications[last'.id].signoff_workflow[1].status
                \in {"approved", "rejected"} )
        => applications'[last'.id].signoff_workflow[1].status
              = applications[last'.id].signoff_workflow[1].status ]_vars

\* C40: every stored workflow has at least one approval.
C40_WorkflowHasApproval ==
    \A id \in DOMAIN applications :
        HasWorkflow(applications[id]) => Len(Approvals(applications[id])) >= 1

\* C31: a handler that reports success issued its last write on an application
\* that was there to be written.
C31_NoSilentFailedWrite ==
    [][ \A c \in Clients :
           ( calls[c].pc \notin {"idle", "done"} /\ calls'[c].pc = "done"
             /\ calls'[c].result = "ok" )
           => Exists(calls[c].id) ]_vars

\* C35: a withdraw writes withdrawn only over a status of the withdrawable set.
C35_WithdrawKeepsOtherStatus ==
    [][ \A c \in Clients :
           ( calls[c].pc = "withdrawing" /\ calls'[c].pc = "done"
             /\ Exists(calls[c].id) )
           => \/ applications[calls[c].id].status \in {"submitted", "under_review"}
              \/ applications'[calls[c].id].status = applications[calls[c].id].status
       ]_vars

\* C39: an initiation stores its workflow on an application whose status is
\* approved at the moment of the store.
C39_WorkflowStoredOnApproved ==
    [][ \A c \in Clients :
           ( calls[c].pc = "initiating" /\ calls'[c].pc = "done"
             /\ calls'[c].result = "ok" )
           => applications[calls[c].id].status = "approved" ]_vars

====
